---- MODULE Spec2Model ----
(***************************************************************************)
(* Model of cursor_pro_unlock_auto.py: main() runs, in order,              *)
(* check_cursor_process, reset_machine_id, modify_product_json,            *)
(* patch_workbench and open_login_page over three files under the          *)
(* installation root.  Every function is one action; the responses of the  *)
(* operating system (escalation result, I/O errors, termination errors,    *)
(* browser start) are inputs drawn with \E.                                *)
(***************************************************************************)
EXTENDS Integers, Sequences, FiniteSets, TLC

VARIABLES
    pc,          \* position of main(): the step about to run, Done or Failed
    system,      \* platform.system()
    rootExists,  \* os.path.exists(cursor_path)
    token_limit, \* config["token_limit"]
    procs,       \* psutil.process_iter(['name']): sequence of process names
    idFile,      \* <cursor_path>/machineId
    configFile,  \* <cursor_path>/product.json
    scriptFile,  \* <cursor_path>/app-<version>/.../workbench.desktop.main.js
    orig,        \* the three files as they were when main() started
    browser_type,\* value returned by select_browser()
    launched,    \* open_login_page is blocked in input()
    outcome,     \* per step: none, success, skipped or failed
    started,     \* the steps in the order they started
    failure,     \* step and cause of the exit, if any
    written,     \* what the writer steps computed to write
    events,      \* calls made to the operating system, in order
    generated,   \* the identifiers uuid.uuid4() has returned so far
    runs         \* the outcomes of the earlier runs of main() on this installation

vars == <<pc, system, rootExists, token_limit, procs, idFile, configFile,
          scriptFile, orig, browser_type, launched, outcome, started,
          failure, written, events, generated, runs>>

----------------------------------------------------------------------------
(* Bounds of the model *)

MaxProcs == 1        \* number of live processes enumerated
MaxRuns == 2         \* number of times main() is run on the installation
MaxPieces == 2       \* number of fragments the script text is made of
IdLen == 2           \* number of characters kept of a generated identifier

----------------------------------------------------------------------------
(* Text: a string is a sequence of one-character strings *)

checkForUpdates ==
    <<"c","h","e","c","k","F","o","r","U","p","d","a","t","e","s">>

restrictPremiumModels ==
    <<"r","e","s","t","r","i","c","t","P","r","e","m","i","u","m",
      "M","o","d","e","l","s">>

CommentOpen == <<"/","*">>
CommentClose == <<"*","/">>

\* str.startswith at the head of s
StartsWith(s, p) == Len(s) >= Len(p) /\ SubSeq(s, 1, Len(p)) = p

\* 'p in s' for strings
RECURSIVE Contains(_, _)
Contains(s, p) ==
    IF Len(s) < Len(p) THEN FALSE
    ELSE IF StartsWith(s, p) THEN TRUE
    ELSE Contains(Tail(s), p)

\* str.replace(old, new): every non-overlapping occurrence, left to right
RECURSIVE Replace(_, _, _)
Replace(s, old, new) ==
    IF Len(s) < Len(old) THEN s
    ELSE IF StartsWith(s, old)
         THEN new \o Replace(SubSeq(s, Len(old) + 1, Len(s)), old, new)
         ELSE <<Head(s)>> \o Replace(Tail(s), old, new)

RECURSIVE Flatten(_)
Flatten(ss) == IF ss = <<>> THEN <<>> ELSE Head(ss) \o Flatten(Tail(ss))

SeqsUpTo(S, n) == UNION { [1..k -> S] : k \in 0..n }

----------------------------------------------------------------------------
(* The pipeline *)

Steps == <<"ReapingProcesses", "ResettingIdentifier", "PatchingConfig",
           "PatchingScript", "AwaitingLogin">>

StepSet == { Steps[i] : i \in 1..Len(Steps) }

StepIndex(s) == CHOOSE i \in 1..Len(Steps) : Steps[i] = s

NoFailure == [step |-> "none", cause |-> "none"]

Event(op, target) == [op |-> op, target |-> target, n |-> 0]

\* proc.terminate() on the i-th enumerated process
Terminate(i) == [op |-> "terminate", target |-> "process", n |-> i]

----------------------------------------------------------------------------
(* product.json: the text of the file and the dict json.load makes of it *)

MaxMembers == 2      \* number of members of the object initially in product.json

premiumModels == <<"gpt-4o-mini", "gpt-4", "claude-3.5-sonnet">>

JNum(n) == [tag |-> "num", n |-> n, items |-> <<>>]
JList(l) == [tag |-> "list", n |-> 0, items |-> l]
Pair(k, v) == [k |-> k, v |-> v]

\* the text of a JSON document: its members in textual order (a key may occur
\* twice), or a text that is not an object / not JSON at all
ObjectText(pairs, indent) == [kind |-> "object", pairs |-> pairs, indent |-> indent]
ArrayText == [kind |-> "array", pairs |-> <<>>, indent |-> 0]
MalformedText == [kind |-> "malformed", pairs |-> <<>>, indent |-> 0]
EmptyText == [kind |-> "empty", pairs |-> <<>>, indent |-> 0]

Keys(d) == { d[i].k : i \in DOMAIN d }

\* d[k] = v on a dict: in place when the key is there, appended otherwise
SetItem(d, k, v) ==
    IF k \in Keys(d)
    THEN [i \in DOMAIN d |-> IF d[i].k = k THEN Pair(k, v) ELSE d[i]]
    ELSE Append(d, Pair(k, v))

\* d[k]
GetItem(d, k) == d[CHOOSE i \in DOMAIN d : d[i].k = k].v

\* json.load of an object: members are inserted in order, the last value of a
\* repeated key wins
RECURSIVE LoadMembers(_, _)
LoadMembers(pairs, d) ==
    IF pairs = <<>> THEN d
    ELSE LoadMembers(Tail(pairs), SetItem(d, Head(pairs).k, Head(pairs).v))

json_load(text) == LoadMembers(text.pairs, <<>>)

\* json.dump(data, f, indent=4)
json_dump(d) == ObjectText(d, 4)

\* a fresh dict holding only the two fields
PatchDataOverwrite(data, limit) ==
    <<Pair("tokenLimit", JNum(limit)), Pair("premiumModels", JList(premiumModels))>>

\* the two assignments of modify_product_json
PatchData(data, limit) ==
    SetItem(SetItem(data, "tokenLimit", JNum(limit)),
            "premiumModels", JList(premiumModels))

\* str.replace(old, new, 1): the first occurrence only
RECURSIVE ReplaceFirst(_, _, _)
ReplaceFirst(s, old, new) ==
    IF Len(s) < Len(old) THEN s
    ELSE IF StartsWith(s, old)
         THEN new \o SubSeq(s, Len(old) + 1, Len(s))
         ELSE <<Head(s)>> \o ReplaceFirst(Tail(s), old, new)

\* patched_content with only the first occurrence of each marker wrapped
PatchContentFirstOnly(content) ==
    ReplaceFirst(ReplaceFirst(content, checkForUpdates,
                              CommentOpen \o checkForUpdates \o CommentClose),
                 restrictPremiumModels,
                 CommentOpen \o restrictPremiumModels \o CommentClose)

\* patched_content of patch_workbench
PatchContent(content) ==
    Replace(Replace(content, checkForUpdates,
                    CommentOpen \o checkForUpdates \o CommentClose),
            restrictPremiumModels,
            CommentOpen \o restrictPremiumModels \o CommentClose)

----------------------------------------------------------------------------
(* Files and PermissionGuard *)

File(e, w, d) == [exists |-> e, writable |-> w, data |-> d]

\* check_and_set_permissions with the error of check_call swallowed
GuardSwallowsError(target, f, sys) ==
    IF ~f.exists \/ f.writable \/ sys \notin {"Linux", "Darwin", "Windows"}
    THEN { [ret |-> "return", file |-> f, ev |-> <<Event("guard", target)>>] }
    ELSE { [ret |-> "return", file |-> [f EXCEPT !.writable = w],
            ev |-> <<Event("guard", target), Event("escalate", target)>>]
             : w \in BOOLEAN }
         \cup
         { [ret |-> "return", file |-> f,
            ev |-> <<Event("guard", target), Event("escalate", target),
                     Event("escalate_error", target)>>] }

\* check_and_set_permissions without the os.access test
GuardAlwaysEscalates(target, f, sys) ==
    IF ~f.exists
    THEN { [ret |-> "return", file |-> f, ev |-> <<Event("guard", target)>>] }
    ELSE { [ret |-> "return", file |-> [f EXCEPT !.writable = TRUE],
            ev |-> <<Event("guard", target), Event("escalate", target)>>] }

\* check_and_set_permissions(file_path): the set of ways the call can end.
\* ret is "return" (the function returns), "exit" (CalledProcessError, exit(1))
\* or "raise" (another exception of check_call escapes, e.g. the tool is
\* missing); file is the file afterwards.
check_and_set_permissions(target, f, sys) ==
    IF ~f.exists
    THEN { [ret |-> "return", file |-> f, ev |-> <<Event("guard", target)>>] }
    ELSE IF f.writable
    THEN { [ret |-> "return", file |-> f, ev |-> <<Event("guard", target)>>] }
    ELSE IF sys \in {"Linux", "Darwin", "Windows"}
    THEN { [ret |-> "return", file |-> [f EXCEPT !.writable = w],
            ev |-> <<Event("guard", target), Event("escalate", target)>>]
             : w \in BOOLEAN }
         \cup
         { [ret |-> r, file |-> f,
            ev |-> <<Event("guard", target), Event("escalate", target),
                     Event("escalate_error", target)>>]
             : r \in {"exit", "raise"} }
    ELSE { [ret |-> "return", file |-> f, ev |-> <<Event("guard", target)>>] }

GuardCause(ret) == IF ret = "exit" THEN "PermissionError" ELSE "Uncaught"

----------------------------------------------------------------------------
(* Sequencing of main() *)

\* main() going on to the next call after a step failed
AfterStepNoExit(step, out) ==
    IF StepIndex(step) = Len(Steps) THEN "Done"
    ELSE Steps[StepIndex(step) + 1]

\* main() calling the failed step again
AfterStepRetry(step, out) ==
    IF out = "failed" THEN step
    ELSE IF StepIndex(step) = Len(Steps) THEN "Done"
    ELSE Steps[StepIndex(step) + 1]

\* where main() is after a step ended with outcome out: exit(1) and an
\* escaping exception end the run, otherwise the next call is made
AfterStep(step, out) ==
    IF out = "failed" THEN "Failed"
    ELSE IF StepIndex(step) = Len(Steps) THEN "Done"
    ELSE Steps[StepIndex(step) + 1]

StepEnds(step, out, cause) ==
    /\ pc' = AfterStep(step, out)
    /\ outcome' = [outcome EXCEPT ![step] = out]
    /\ started' = IF step \in { started[i] : i \in DOMAIN started }
                  THEN started ELSE Append(started, step)
    /\ failure' = IF out = "failed" THEN [step |-> step, cause |-> cause]
                  ELSE failure

----------------------------------------------------------------------------
(* The bodies of the three writer steps, after the guard has returned.     *)
(* Each gives the set of ways the body can end: the file afterwards, the   *)
(* calls made, the outcome and what was computed to be written.            *)

HexDigits == {"a", "f"}

\* str(uuid.uuid4()), shortened to IdLen characters
UUIDs == [1..IdLen -> HexDigits]

\* what a write that raises leaves in a file opened with 'w': nothing, or
\* the first half of the text
TornWrites(s) == { SubSeq(s, 1, k) : k \in {0, Len(s) \div 2} } \ {s}

Result(f, ev, out, cause) == [file |-> f, ev |-> ev, out |-> out, cause |-> cause]

\* reset_machine_id opening the file with 'a': the identifier is appended
WriteMachineIdAppends(f, new_id) ==
    LET ow == <<Event("open_w", "machineId")>> IN
    IF f.exists /\ ~f.writable
    THEN { Result(f, ow, "failed", "IOError") }
    ELSE { Result(File(TRUE, TRUE, f.data \o new_id), ow, "success", "none") }

\* reset_machine_id, lines 176-183
WriteMachineId(f, new_id) ==
    LET ow == <<Event("open_w", "machineId")>> IN
    IF f.exists /\ ~f.writable
    THEN { Result(f, ow, "failed", "IOError") }
    ELSE { Result(f, ow, "failed", "IOError") }
         \cup { Result(File(TRUE, TRUE, t), ow, "failed", "IOError")
                  : t \in TornWrites(new_id) }
         \cup { Result(File(TRUE, TRUE, new_id), ow, "success", "none") }

\* modify_product_json writing the two fields to a new file when none exists
RewriteProductJsonCreates(f, limit) ==
    IF ~f.exists
    THEN { Result(File(TRUE, TRUE, json_dump(PatchData(<<>>, limit))),
                  <<Event("open_w", "product.json")>>, "success", "none") }
    ELSE { Result(f, <<Event("open_r", "product.json")>>, "failed", "IOError") }

\* modify_product_json, lines 195-208
RewriteProductJson(f, limit) ==
    LET or == <<Event("open_r", "product.json")>>
        ow == <<Event("open_r", "product.json"), Event("open_w", "product.json")>>
    IN
    IF ~f.exists
    THEN { Result(f, <<>>, "skipped", "none") }
    ELSE { Result(f, or, "failed", "IOError") }
         \cup
         IF f.data.kind # "object"
         THEN { Result(f, or, "failed", "MalformedDocument") }
         ELSE IF ~f.writable
         THEN { Result(f, ow, "failed", "IOError") }
         ELSE { Result(f, ow, "failed", "IOError") }
              \cup { Result([f EXCEPT !.data = t], ow, "failed", "IOError")
                       : t \in {EmptyText, MalformedText} }
              \cup { Result([f EXCEPT !.data =
                                json_dump(PatchData(json_load(f.data), limit))],
                            ow, "success", "none") }

\* patch_workbench, lines 223-237
RewriteWorkbench(f) ==
    LET or == <<Event("open_r", "workbench")>>
        ow == <<Event("open_r", "workbench"), Event("open_w", "workbench")>>
    IN
    IF ~f.exists
    THEN { Result(f, <<>>, "skipped", "none") }
    ELSE { Result(f, or, "failed", "IOError") }
         \cup
         IF ~f.writable
         THEN { Result(f, ow, "failed", "IOError") }
         ELSE { Result(f, ow, "failed", "IOError") }
              \cup { Result([f EXCEPT !.data = t], ow, "failed", "IOError")
                       : t \in TornWrites(PatchContent(f.data)) }
              \cup { Result([f EXCEPT !.data = PatchContent(f.data)],
                            ow, "success", "none") }

----------------------------------------------------------------------------
(* ProcessReaper *)

Cursor == <<"C","u","r","s","o","r">>

\* proc.info['name'] is None when psutil could not read the name
NoneName == <<"None">>

ProcessNames ==
    { Cursor,
      <<"b","a","s","h">>,
      <<"c","u","r","s","o","r">>,
      NoneName }

TermOutcomes == {"ok", "NoSuchProcess", "AccessDenied"}

\* the loop of check_cursor_process from process i on: the terminate calls
\* made and whether an exception left the loop
RECURSIVE ReapFrom(_, _, _)
ReapFrom(ps, terms, i) ==
    IF i > Len(ps) THEN [ev |-> <<>>, raised |-> FALSE]
    ELSE IF ps[i] = NoneName THEN [ev |-> <<>>, raised |-> TRUE]
    ELSE IF Contains(ps[i], Cursor)
    THEN IF terms[i] # "ok"
         THEN [ev |-> <<Terminate(i)>>, raised |-> TRUE]
         ELSE LET rest == ReapFrom(ps, terms, i + 1)
              IN  [ev |-> <<Terminate(i)>> \o rest.ev,
                   raised |-> rest.raised]
    ELSE ReapFrom(ps, terms, i + 1)

----------------------------------------------------------------------------
(* Initial states: the installation and the inputs main() is started with *)

Systems == {"Linux", "Darwin", "Windows", "FreeBSD"}

DefaultTokenLimit == 1000000

TokenLimits == {500000, DefaultTokenLimit}

Members ==
    { Pair("a", JNum(1)), Pair("a", JNum(2)),
      Pair("tokenLimit", JNum(5)), Pair("premiumModels", JList(<<"gpt-4">>)) }

ConfigTexts ==
    { ObjectText(ms, 2) : ms \in SeqsUpTo(Members, MaxMembers) }
    \cup {ArrayText, MalformedText}

Pieces ==
    { checkForUpdates, restrictPremiumModels,
      CommentOpen \o checkForUpdates \o CommentClose, <<"x">> }

ScriptTexts == { Flatten(ps) : ps \in SeqsUpTo(Pieces, MaxPieces) }

OldId == [i \in 1..IdLen |-> "a"]

\* {"a": 1}
PlainConfig == ObjectText(<<Pair("a", JNum(1))>>, 2)

\* checkForUpdates;restrictPremiumModels
PlainScript == checkForUpdates \o <<";">> \o restrictPremiumModels

\* the same text after one run of patch_workbench
PatchedScript ==
    CommentOpen \o checkForUpdates \o CommentClose \o <<";">>
    \o CommentOpen \o restrictPremiumModels \o CommentClose

Absent(d) == File(FALSE, FALSE, d)

\* a file is absent, present and unwritable, or present and writable
FileStates(unwritable, texts, none) ==
    {Absent(none)} \cup { File(TRUE, FALSE, t) : t \in unwritable }
                  \cup { File(TRUE, TRUE, t) : t \in texts }

NothingWritten ==
    [targets |-> {}, id |-> <<>>, config |-> EmptyText, script |-> <<>>]

\* the states main() can start in, over the given platforms, limits, process
\* lists and contents of a writable product.json and workbench file
InitOver(systems, limits, proclists, configs, scripts) ==
    /\ pc = "Idle"
    /\ system \in systems
    /\ token_limit \in limits
    /\ procs \in proclists
    /\ rootExists \in BOOLEAN
    /\ idFile \in IF rootExists THEN FileStates({OldId}, {OldId}, <<>>)
                  ELSE {Absent(<<>>)}
    /\ configFile \in IF rootExists
                      THEN FileStates({PlainConfig}, configs, EmptyText)
                      ELSE {Absent(EmptyText)}
    /\ scriptFile \in IF rootExists
                      THEN FileStates({PlainScript}, scripts, <<>>)
                      ELSE {Absent(<<>>)}
    /\ orig = [id |-> idFile, config |-> configFile, script |-> scriptFile]
    /\ browser_type = "none"
    /\ launched = FALSE
    /\ outcome = [s \in StepSet |-> "none"]
    /\ started = <<>>
    /\ failure = NoFailure
    /\ written = NothingWritten
    /\ events = <<>>
    /\ generated = IF idFile.exists THEN {idFile.data} ELSE {}
    /\ runs = <<>>

Init ==
    InitOver(Systems, {DefaultTokenLimit}, SeqsUpTo(ProcessNames, MaxProcs),
             {PlainConfig, MalformedText}, {PlainScript, PatchedScript})

\* every product.json of up to MaxMembers members, on one platform
InitConfigs ==
    InitOver({"Linux"}, TokenLimits, {<<>>}, ConfigTexts, {PlainScript})

\* an installation with a well-formed product.json and an unpatched
\* workbench file, on which main() is run up to MaxRuns times
InitRerun ==
    InitOver({"Linux"}, {DefaultTokenLimit}, {<<>>}, {PlainConfig}, {PlainScript})

\* every list of up to MaxProcs + 1 live processes, one of them a helper
\* process of the application ("CursorH")
InitReaper ==
    InitOver({"Linux"}, {DefaultTokenLimit},
             SeqsUpTo(ProcessNames \cup {Cursor \o <<"H">>}, MaxProcs + 1),
             {PlainConfig}, {PlainScript})

\* every workbench text of up to MaxPieces fragments, on one platform
InitScripts ==
    InitOver({"Linux"}, {DefaultTokenLimit}, {<<>>}, {PlainConfig}, ScriptTexts)

----------------------------------------------------------------------------
(* Actions *)

\* uuid.uuid4(): a random 122-bit value, taken never to repeat a value it
\* has returned before
uuid4 == UUIDs \ generated


\* main() without the test of the installation root
CheckCursorPathIgnored ==
    /\ pc = "Idle"
    /\ pc' = "SelectingBrowser"
    /\ UNCHANGED <<runs, generated, system, rootExists, token_limit, procs,
                   idFile, configFile, scriptFile, orig, browser_type,
                   launched, outcome, started, failure, written, events>>

\* main(), lines 335-342: the installation root must exist
CheckCursorPath ==
    /\ pc = "Idle"
    /\ IF rootExists
       THEN /\ pc' = "SelectingBrowser"
            /\ failure' = failure
       ELSE /\ pc' = "Failed"
            /\ failure' = [step |-> "Idle", cause |-> "RootNotFound"]
    /\ UNCHANGED <<runs, generated, system, rootExists, token_limit, procs,
                   idFile, configFile,
                   scriptFile, orig, browser_type, launched, outcome, started,
                   written, events>>

Browsers(sys) ==
    {"chrome", "firefox", "edge"} \cup (IF sys = "Darwin" THEN {"safari"} ELSE {})

\* select_browser(): blocks in Prompt.ask until the operator picks a browser
select_browser ==
    /\ pc = "SelectingBrowser"
    /\ \E b \in Browsers(system) : browser_type' = b
    /\ events' = Append(events, Event("prompt", "operator"))
    /\ pc' = "ReapingProcesses"
    /\ UNCHANGED <<runs, generated, system, rootExists, token_limit, procs,
                   idFile, configFile,
                   scriptFile, orig, launched, outcome, started, failure,
                   written>>

\* check_cursor_process(): no try/except, an exception of psutil ends the run
check_cursor_process ==
    /\ pc = "ReapingProcesses"
    /\ \E terms \in [1..Len(procs) -> TermOutcomes] :
         LET r == ReapFrom(procs, terms, 1) IN
         /\ events' = events \o r.ev
         /\ StepEnds("ReapingProcesses",
                     IF r.raised THEN "failed" ELSE "success", "Uncaught")
    /\ UNCHANGED <<runs, generated, system, rootExists, token_limit, procs,
                   idFile, configFile,
                   scriptFile, orig, browser_type, launched, written>>

\* reset_machine_id writing the identifier to the path of product.json
ResetWritesProductJson ==
    /\ pc = "ResettingIdentifier"
    /\ \E g \in check_and_set_permissions("machineId", idFile, system) :
         IF g.ret # "return"
         THEN /\ idFile' = g.file
              /\ configFile' = configFile
              /\ events' = events \o g.ev
              /\ written' = written
              /\ generated' = generated
              /\ StepEnds("ResettingIdentifier", "failed", GuardCause(g.ret))
         ELSE \E new_id \in uuid4 :
              /\ generated' = generated \cup {new_id}
              /\ idFile' = g.file
              /\ configFile' = File(TRUE, TRUE, MalformedText)
              /\ events' = events \o g.ev \o <<Event("open_w", "product.json")>>
              /\ written' = [written EXCEPT !.targets = @ \cup {"machineId"},
                                            !.id = new_id]
              /\ StepEnds("ResettingIdentifier", "success", "none")
    /\ UNCHANGED <<runs, system, rootExists, token_limit, procs,
                   scriptFile, orig, browser_type, launched>>

\* reset_machine_id(cursor_path)
reset_machine_id ==
    /\ pc = "ResettingIdentifier"
    /\ \E g \in check_and_set_permissions("machineId", idFile, system) :
         IF g.ret # "return"
         THEN /\ idFile' = g.file
              /\ events' = events \o g.ev
              /\ written' = written
              /\ generated' = generated
              /\ StepEnds("ResettingIdentifier", "failed", GuardCause(g.ret))
         ELSE \E new_id \in uuid4 : \E r \in WriteMachineId(g.file, new_id) :
              /\ generated' = generated \cup {new_id}
              /\ idFile' = r.file
              /\ events' = events \o g.ev \o r.ev
              /\ written' = [written EXCEPT !.targets = @ \cup {"machineId"},
                                            !.id = new_id]
              /\ StepEnds("ResettingIdentifier", r.out, r.cause)
    /\ UNCHANGED <<runs, system, rootExists, token_limit, procs, configFile,
                   scriptFile, orig, browser_type, launched>>

\* modify_product_json putting the old identifier back when it fails
ModifyProductJsonRollsBack ==
    /\ pc = "PatchingConfig"
    /\ \E g \in check_and_set_permissions("product.json", configFile, system) :
         IF g.ret # "return"
         THEN /\ configFile' = g.file
              /\ idFile' = orig.id
              /\ events' = events \o g.ev
              /\ written' = written
              /\ StepEnds("PatchingConfig", "failed", GuardCause(g.ret))
         ELSE \E r \in RewriteProductJson(g.file, token_limit) :
              /\ configFile' = r.file
              /\ idFile' = IF r.out = "failed" THEN orig.id ELSE idFile
              /\ events' = events \o g.ev \o r.ev
              /\ written' =
                   IF g.file.exists /\ g.file.data.kind = "object"
                   THEN [written EXCEPT
                           !.targets = @ \cup {"product.json"},
                           !.config = json_dump(PatchData(json_load(g.file.data),
                                                          token_limit))]
                   ELSE written
              /\ StepEnds("PatchingConfig", r.out, r.cause)
    /\ UNCHANGED <<runs, generated, system, rootExists, token_limit, procs,
                   scriptFile, orig, browser_type, launched>>

\* modify_product_json(cursor_path, token_limit)
modify_product_json ==
    /\ pc = "PatchingConfig"
    /\ \E g \in check_and_set_permissions("product.json", configFile, system) :
         IF g.ret # "return"
         THEN /\ configFile' = g.file
              /\ events' = events \o g.ev
              /\ written' = written
              /\ StepEnds("PatchingConfig", "failed", GuardCause(g.ret))
         ELSE \E r \in RewriteProductJson(g.file, token_limit) :
              /\ configFile' = r.file
              /\ events' = events \o g.ev \o r.ev
              /\ written' =
                   IF g.file.exists /\ g.file.data.kind = "object"
                   THEN [written EXCEPT
                           !.targets = @ \cup {"product.json"},
                           !.config = json_dump(PatchData(json_load(g.file.data),
                                                          token_limit))]
                   ELSE written
              /\ StepEnds("PatchingConfig", r.out, r.cause)
    /\ UNCHANGED <<runs, generated, system, rootExists, token_limit, procs,
                   idFile, scriptFile,
                   orig, browser_type, launched>>

\* patch_workbench without the call of check_and_set_permissions
PatchWorkbenchUnguarded ==
    /\ pc = "PatchingScript"
    /\ \E r \in RewriteWorkbench(scriptFile) :
         /\ scriptFile' = r.file
         /\ events' = events \o r.ev
         /\ written' =
              IF scriptFile.exists
              THEN [written EXCEPT !.targets = @ \cup {"workbench"},
                                   !.script = PatchContent(scriptFile.data)]
              ELSE written
         /\ StepEnds("PatchingScript", r.out, r.cause)
    /\ UNCHANGED <<runs, generated, system, rootExists, token_limit, procs,
                   idFile, configFile, orig, browser_type, launched>>

\* patch_workbench(cursor_path, cursor_version)
patch_workbench ==
    /\ pc = "PatchingScript"
    /\ \E g \in check_and_set_permissions("workbench", scriptFile, system) :
         IF g.ret # "return"
         THEN /\ scriptFile' = g.file
              /\ events' = events \o g.ev
              /\ written' = written
              /\ StepEnds("PatchingScript", "failed", GuardCause(g.ret))
         ELSE \E r \in RewriteWorkbench(g.file) :
              /\ scriptFile' = r.file
              /\ events' = events \o g.ev \o r.ev
              /\ written' =
                   IF g.file.exists
                   THEN [written EXCEPT !.targets = @ \cup {"workbench"},
                                        !.script = PatchContent(g.file.data)]
                   ELSE written
              /\ StepEnds("PatchingScript", r.out, r.cause)
    /\ UNCHANGED <<runs, generated, system, rootExists, token_limit, procs,
                   idFile, configFile,
                   orig, browser_type, launched>>

\* open_login_page without the input() call: it returns once the page is open
OpenLoginPageNoWait ==
    /\ pc = "AwaitingLogin"
    /\ ~launched
    /\ \E ok \in BOOLEAN :
         StepEnds("AwaitingLogin", IF ok THEN "success" ELSE "failed",
                  "BrowserError")
    /\ events' = Append(events, Event("launch", browser_type))
    /\ UNCHANGED <<runs, generated, system, rootExists, token_limit, procs,
                   idFile, configFile, scriptFile, orig, browser_type,
                   launched, written>>

\* open_login_page(browser_type), lines 273-296: start the driver and load
\* the login page, then block in input()
open_login_page ==
    /\ pc = "AwaitingLogin"
    /\ ~launched
    /\ \E ok \in BOOLEAN :
         IF ok
         THEN /\ launched' = TRUE
              /\ events' = events \o <<Event("launch", browser_type),
                                       Event("input", "operator")>>
              /\ started' = Append(started, "AwaitingLogin")
              /\ UNCHANGED <<pc, outcome, failure>>
         ELSE /\ launched' = FALSE
              /\ events' = Append(events, Event("launch", browser_type))
              /\ StepEnds("AwaitingLogin", "failed", "BrowserError")
    /\ UNCHANGED <<runs, generated, system, rootExists, token_limit, procs,
                   idFile, configFile,
                   scriptFile, orig, browser_type, written>>

\* open_login_page, lines 297-301, and main(), lines 354-360: input() returns
\* when the operator presses Enter, or raises; driver.quit() may raise
OperatorSignals ==
    /\ pc = "AwaitingLogin"
    /\ launched
    /\ \E ok \in BOOLEAN :
         StepEnds("AwaitingLogin", IF ok THEN "success" ELSE "failed",
                  "BrowserError")
    /\ launched' = FALSE
    /\ UNCHANGED <<runs, generated, system, rootExists, token_limit, procs,
                   idFile, configFile,
                   scriptFile, orig, browser_type, written, events>>

Next ==
    \/ CheckCursorPath
    \/ select_browser
    \/ check_cursor_process
    \/ reset_machine_id
    \/ modify_product_json
    \/ patch_workbench
    \/ open_login_page
    \/ OperatorSignals

\* the script is started again (lines 362-363) after a run has ended
Invoke ==
    /\ pc \in {"Done", "Failed"}
    /\ Len(runs) < MaxRuns - 1
    /\ runs' = Append(runs, outcome)
    /\ pc' = "Idle"
    /\ orig' = [id |-> idFile, config |-> configFile, script |-> scriptFile]
    /\ browser_type' = "none"
    /\ launched' = FALSE
    /\ outcome' = [s \in StepSet |-> "none"]
    /\ started' = <<>>
    /\ failure' = NoFailure
    /\ written' = NothingWritten
    /\ events' = <<>>
    /\ UNCHANGED <<generated, system, rootExists, token_limit, procs, idFile,
                   configFile, scriptFile>>

NextRerun == Next \/ Invoke

Spec == Init /\ [][Next]_vars

SpecRerun == InitRerun /\ [][NextRerun]_vars

SpecReaper == InitReaper /\ [][Next]_vars

SpecConfigs == InitConfigs /\ [][Next]_vars

SpecScripts == InitScripts /\ [][Next]_vars

----------------------------------------------------------------------------
(* Vocabulary of the properties *)

Has(op, target) == \E i \in DOMAIN events : events[i] = Event(op, target)

Touched(target) == Has("open_r", target) \/ Has("open_w", target)

WriterSteps == {"ResettingIdentifier", "PatchingConfig", "PatchingScript"}

TargetOf(step) ==
    CASE step = "ResettingIdentifier" -> "machineId"
      [] step = "PatchingConfig" -> "product.json"
      [] step = "PatchingScript" -> "workbench"

\* is the target as it was when main() started
Untouched(step) ==
    CASE step = "ResettingIdentifier" -> idFile = orig.id
      [] step = "PatchingConfig" -> configFile = orig.config
      [] step = "PatchingScript" -> scriptFile = orig.script

OrigFile(step) ==
    CASE step = "ResettingIdentifier" -> orig.id
      [] step = "PatchingConfig" -> orig.config
      [] step = "PatchingScript" -> orig.script

Completed(step) == outcome[step] \in {"success", "skipped"}

Before(step) == { Steps[j] : j \in 1..(StepIndex(step) - 1) }

After(step) == { Steps[j] : j \in (StepIndex(step) + 1)..Len(Steps) }

HasStarted(step) == \E i \in DOMAIN started : started[i] = step

\* nothing of the steps after `step` has happened
NothingAfter(step) ==
    /\ \A s \in After(step) : outcome[s] = "none" /\ ~HasStarted(s)
    /\ \A s \in After(step) \cap WriterSteps :
         /\ Untouched(s)
         /\ ~Touched(TargetOf(s))
         /\ ~Has("guard", TargetOf(s))
    /\ "AwaitingLogin" \in After(step) =>
         /\ \A i \in DOMAIN events : events[i].op \notin {"launch", "input"}
         /\ ~launched

----------------------------------------------------------------------------
(* C1: the steps start in the order ReapingProcesses, ResettingIdentifier, *)
(* PatchingConfig, PatchingScript, AwaitingLogin, and a step starts (or is *)
(* the one about to start) only when every step before it has ended with   *)
(* a success or skipped outcome.                                           *)
C1_SequentialOrder ==
    /\ Len(started) <= Len(Steps)
    /\ \A i \in DOMAIN started :
         /\ started[i] = Steps[i]
         /\ \A s \in Before(started[i]) : Completed(s)
    /\ pc \in StepSet => \A s \in Before(pc) : Completed(s)
    /\ pc = "Done" => \A s \in StepSet : Completed(s)

\* all five steps have started, the config step having been skipped
C1_Witness ==
    /\ started = Steps
    /\ outcome["PatchingConfig"] = "skipped"
    /\ outcome["PatchingScript"] = "success"

(* C2: once a step has failed the run is in Failed for good: Failed is     *)
(* entered in the very transition in which the step fails, no later step   *)
(* has started or touched its target, the failed step is not run again,    *)
(* and Done is not reported.                                               *)
C2_FailedState ==
    \A s \in StepSet \ {"ReapingProcesses"} :
        outcome[s] = "failed" =>
            /\ pc = "Failed"
            /\ failure.step = s
            /\ NothingAfter(s)
            /\ s \in WriterSteps =>
                 Cardinality({ i \in DOMAIN events :
                                 events[i] = Event("guard", TargetOf(s)) }) = 1

C2_FailureIsTerminal ==
    [](C2_FailedState) /\ [][pc = "Failed" => pc' = "Failed"]_vars

\* the config patch has failed after the identifier was reset
C2_Witness ==
    /\ pc = "Failed"
    /\ failure.step = "PatchingConfig"
    /\ outcome["ResettingIdentifier"] = "success"

(* C3: no writer step opens for writing a target that exists and is not    *)
(* writable: whenever a target has been opened for writing it was          *)
(* writable, or absent, at that time (writability is only ever granted,    *)
(* by the guard, before the open).                                         *)
C3_NeverOpensUnwritable ==
    /\ Has("open_w", "machineId") => ~(idFile.exists /\ ~idFile.writable)
    /\ Has("open_w", "product.json") =>
          ~(configFile.exists /\ ~configFile.writable)
    /\ Has("open_w", "workbench") =>
          ~(scriptFile.exists /\ ~scriptFile.writable)

(* C4: when the escalation for a step's target fails, the run is Failed at *)
(* that step, the step has neither read nor written its target, which is   *)
(* as it was, and nothing of the later steps has happened.                 *)
C4_EscalationFailure ==
    \A s \in WriterSteps :
        Has("escalate_error", TargetOf(s)) =>
            /\ OrigFile(s).exists /\ ~OrigFile(s).writable
            /\ pc = "Failed"
            /\ failure.step = s
            /\ outcome[s] = "failed"
            /\ ~Touched(TargetOf(s))
            /\ Untouched(s)
            /\ NothingAfter(s)

\* the escalation for product.json failed after the identifier was reset
C4_Witness ==
    /\ Has("escalate_error", "product.json")
    /\ failure = [step |-> "PatchingConfig", cause |-> "PermissionError"]
    /\ outcome["ResettingIdentifier"] = "success"

(* C5: after a failed writer step its target holds either its complete     *)
(* prior content (or is still absent) or the complete new content.         *)
C5_NoCorruption ==
    /\ failure.step = "ResettingIdentifier" =>
         \/ idFile.exists = orig.id.exists /\ idFile.data = orig.id.data
         \/ /\ "machineId" \in written.targets
            /\ idFile.exists /\ idFile.data = written.id
    /\ failure.step = "PatchingConfig" =>
         \/ configFile.exists = orig.config.exists
              /\ configFile.data = orig.config.data
         \/ /\ "product.json" \in written.targets
            /\ configFile.exists /\ configFile.data = written.config
    /\ failure.step = "PatchingScript" =>
         \/ scriptFile.exists = orig.script.exists
              /\ scriptFile.data = orig.script.data
         \/ /\ "workbench" \in written.targets
            /\ scriptFile.exists /\ scriptFile.data = written.script

(* C6: patching is idempotent: the text a successful patch_workbench       *)
(* leaves in the file is left unchanged by a second application of the     *)
(* patch, so no marker is wrapped twice.                                   *)
C6_Idempotent ==
    outcome["PatchingScript"] = "success" =>
        PatchContent(scriptFile.data) = scriptFile.data

(* C7: the reaping step never fails the run: whatever processes are        *)
(* enumerated and whatever the termination requests answer, the step       *)
(* completes and main() goes on to ResettingIdentifier.                    *)
C7_ReaperNeverFails ==
    /\ outcome["ReapingProcesses"] # "failed"
    /\ failure.step # "ReapingProcesses"

(* C8: a successful config patch of a well-formed JSON object leaves a     *)
(* document whose tokenLimit is the requested limit, whose premiumModels   *)
(* is the fixed list, and in which every other key of the prior document   *)
(* has its prior value; the keys are the prior keys plus those two.        *)
C8_ConfigPatched ==
    outcome["PatchingConfig"] = "success" =>
        LET old == json_load(orig.config.data)
            new == json_load(configFile.data)
        IN  /\ orig.config.data.kind = "object"
            /\ configFile.exists
            /\ configFile.data.kind = "object"
            /\ Len(configFile.data.pairs) = Cardinality(Keys(new))
            /\ Keys(new) = Keys(old) \cup {"tokenLimit", "premiumModels"}
            /\ GetItem(new, "tokenLimit") = JNum(token_limit)
            /\ GetItem(new, "premiumModels") = JList(premiumModels)
            /\ \A k \in Keys(old) \ {"tokenLimit", "premiumModels"} :
                 GetItem(new, k) = GetItem(old, k)

\* a document with another key and an older tokenLimit has been patched
C8_Witness ==
    /\ outcome["PatchingConfig"] = "success"
    /\ orig.config.data.pairs = <<Pair("tokenLimit", JNum(5)), Pair("a", JNum(2))>>
    /\ token_limit = 500000

(* C9: when product.json (the workbench file) is absent its step ends      *)
(* skipped, the file is still absent and was never opened, and main() goes *)
(* on with the next step.                                                  *)
C9_AbsentIsSkipped ==
    /\ (~orig.config.exists /\ HasStarted("PatchingConfig")) =>
          /\ outcome["PatchingConfig"] = "skipped"
          /\ ~configFile.exists
          /\ ~Touched("product.json")
          /\ failure.step # "PatchingConfig"
          /\ pc \in After("PatchingConfig") \cup {"Done", "Failed"}
          /\ pc = "Failed" => failure.step \in After("PatchingConfig")
    /\ (~orig.script.exists /\ HasStarted("PatchingScript")) =>
          /\ outcome["PatchingScript"] = "skipped"
          /\ ~scriptFile.exists
          /\ ~Touched("workbench")
          /\ failure.step # "PatchingScript"
          /\ pc \in After("PatchingScript") \cup {"Done", "Failed"}
          /\ pc = "Failed" => failure.step \in After("PatchingScript")

\* both optional files were absent and the run reached the login step
C9_Witness ==
    /\ ~orig.config.exists /\ ~orig.script.exists
    /\ outcome["PatchingConfig"] = "skipped"
    /\ outcome["PatchingScript"] = "skipped"
    /\ pc = "AwaitingLogin"

(* C10: the guard escalates only for a target that exists and is not       *)
(* writable: called on an absent or an already writable target it makes    *)
(* no escalation call, does not fail, and leaves the target's permissions  *)
(* as they were.                                                           *)
C10_NoNeedlessEscalation ==
    \A s \in WriterSteps :
        (Has("guard", TargetOf(s)) /\ (~OrigFile(s).exists \/ OrigFile(s).writable)) =>
            /\ ~Has("escalate", TargetOf(s))
            /\ ~Has("escalate_error", TargetOf(s))
            /\ failure.step = s => failure.cause \notin {"PermissionError", "Uncaught"}
            /\ s # "ResettingIdentifier" /\ OrigFile(s).exists =>
                 (CASE s = "PatchingConfig" -> configFile.writable
                    [] s = "PatchingScript" -> scriptFile.writable)
            /\ s # "ResettingIdentifier" /\ ~OrigFile(s).exists =>
                 Untouched(s)

\* the guard has run on a writable product.json and on an absent workbench file
C10_Witness ==
    /\ Has("guard", "product.json") /\ orig.config.exists /\ orig.config.writable
    /\ Has("guard", "workbench") /\ ~orig.script.exists
    /\ outcome["PatchingConfig"] = "success"

----------------------------------------------------------------------------
(* Vocabulary of the text properties *)

Markers == {checkForUpdates, restrictPremiumModels}

\* the positions at which p occurs in s
Occurrences(s, p) ==
    { i \in 1..(Len(s) - Len(p) + 1) : SubSeq(s, i, i + Len(p) - 1) = p }

\* the occurrence of p at position i of s stands between /* and */
Wrapped(s, p, i) ==
    /\ i > 2
    /\ SubSeq(s, i - 2, i - 1) = CommentOpen
    /\ SubSeq(s, i + Len(p), i + Len(p) + 1) = CommentClose

\* the positions of the /* and */ around the occurrences of the markers in s
WrapperPositions(s) ==
    UNION { UNION { {i - 2, i - 1, i + Len(m), i + Len(m) + 1} :
                      i \in { j \in Occurrences(s, m) : Wrapped(s, m, j) } } :
              m \in Markers }

\* s without the characters at the positions P, from position i on
RECURSIVE Without(_, _, _)
Without(s, P, i) ==
    IF i > Len(s) THEN <<>>
    ELSE (IF i \in P THEN <<>> ELSE <<s[i]>>) \o Without(s, P, i + 1)

----------------------------------------------------------------------------
(* C12: after a successful reset the identifier file exists and its whole  *)
(* content is the identifier generated in this run, whether the file was   *)
(* absent or present before; it differs from the content the file had      *)
(* before, in particular from the identifier the preceding run left there. *)
C12_IdentifierReplaced ==
    outcome["ResettingIdentifier"] = "success" =>
        /\ idFile.exists
        /\ "machineId" \in written.targets
        /\ idFile.data = written.id
        /\ idFile.data \in UUIDs
        /\ orig.id.exists => idFile.data # orig.id.data

\* the file was absent, the first run created it and the second run has
\* replaced the identifier
C12_Witness ==
    /\ Len(runs) = 1
    /\ runs[1]["ResettingIdentifier"] = "success"
    /\ outcome["ResettingIdentifier"] = "success"
    /\ Cardinality(generated) = 2

----------------------------------------------------------------------------
\* the installation root and the three targets were there and writable, and
\* product.json was a JSON object, when main() started
AllPresentAndWritable ==
    /\ rootExists
    /\ orig.id.exists /\ orig.id.writable
    /\ orig.config.exists /\ orig.config.writable
    /\ orig.config.data.kind = "object"
    /\ orig.script.exists /\ orig.script.writable

(* C13: with the three targets present and writable the run never fails    *)
(* before the login step, unless the operating system fails a read or a    *)
(* write of a writable file; and once the login step is reached the        *)
(* identifier has changed, product.json has the two fields set and its     *)
(* other fields intact, and the workbench file is the patched text.        *)
C13_AlwaysDone ==
    AllPresentAndWritable =>
        /\ pc = "Failed" =>
             failure.step = "AwaitingLogin" \/ failure.cause = "IOError"
        /\ (pc \in {"AwaitingLogin", "Done"} \/ failure.step = "AwaitingLogin") =>
             /\ idFile.data # orig.id.data
             /\ configFile.data =
                  json_dump(PatchData(json_load(orig.config.data), token_limit))
             /\ scriptFile.data = PatchContent(orig.script.data)

----------------------------------------------------------------------------
----------------------------------------------------------------------------
(* C15: a target is opened, for reading or for writing, only after the     *)
(* guard has been called on that same target and has returned: the guard   *)
(* call is the first thing done to the target in the run and it did not    *)
(* end in a failed escalation.                                             *)
C15_GuardBeforeOpen ==
    \A i \in DOMAIN events :
        events[i].op \in {"open_r", "open_w"} =>
            /\ \E j \in 1..(i - 1) :
                 /\ events[j] = Event("guard", events[i].target)
                 /\ \A k \in 1..(j - 1) : events[k].target # events[i].target
            /\ ~Has("escalate_error", events[i].target)

\* all three targets have been guarded and then opened for writing
C15_Witness ==
    /\ Has("open_w", "machineId")
    /\ Has("open_w", "product.json")
    /\ Has("open_w", "workbench")
    /\ Has("escalate", "workbench")

----------------------------------------------------------------------------
(* C16: when the config step, the script step or the login step fails,     *)
(* what the earlier steps wrote is still there: the identifier file holds  *)
(* the identifier generated in this run, and a product.json or workbench   *)
(* file already rewritten holds what was written to it.                    *)
C16_NoRollback ==
    failure.step \in {"PatchingConfig", "PatchingScript", "AwaitingLogin"} =>
        /\ outcome["ResettingIdentifier"] = "success"
        /\ idFile.exists /\ idFile.data = written.id
        /\ idFile.data # orig.id.data
        /\ outcome["PatchingConfig"] = "success" =>
             /\ configFile.data = written.config
             /\ configFile.data =
                  json_dump(PatchData(json_load(orig.config.data), token_limit))
        /\ outcome["PatchingScript"] = "success" =>
             /\ scriptFile.data = written.script
             /\ scriptFile.data = PatchContent(orig.script.data)

\* the login step failed after all three files had been rewritten
C16_Witness ==
    /\ failure.step = "AwaitingLogin"
    /\ outcome["PatchingConfig"] = "success"
    /\ outcome["PatchingScript"] = "success"
    /\ orig.id.exists

----------------------------------------------------------------------------
\* the enumerated processes whose name contains 'Cursor'
Matching ==
    { i \in DOMAIN procs :
        procs[i] # NoneName /\ Occurrences(procs[i], Cursor) # {} }

(* C17: once the reaping step has ended, every enumerated process whose    *)
(* name contains 'Cursor' has been sent exactly one termination request,   *)
(* no other process has been sent one, and terminate() is the only call    *)
(* made on a process.                                                      *)
C17_ExactlyTheMatching ==
    outcome["ReapingProcesses"] # "none" =>
        /\ \A i \in DOMAIN procs :
             Cardinality({ k \in DOMAIN events : events[k] = Terminate(i) })
               = IF i \in Matching THEN 1 ELSE 0
        /\ \A k \in DOMAIN events :
             events[k].target = "process" => events[k].op = "terminate"

----------------------------------------------------------------------------
\* the preceding run of main() on this installation ended in Done
PreviousRunDone ==
    /\ Len(runs) >= 1
    /\ \A s \in StepSet : runs[Len(runs)][s] = "success"

(* C18: running main() again on an installation a successful run has       *)
(* patched changes neither product.json nor the workbench file: after the  *)
(* config step and after the script step of the second run the file is     *)
(* what the first run left.                                                *)
C18_RerunIsSafe ==
    PreviousRunDone =>
        /\ outcome["PatchingConfig"] = "success" =>
             configFile.data = orig.config.data
        /\ outcome["PatchingScript"] = "success" =>
             scriptFile.data = orig.script.data

----------------------------------------------------------------------------
(* C19: when the installation root does not exist the run ends before the  *)
(* pipeline leaves Idle: no step starts, the operator is not asked for a   *)
(* browser, no process is sent a termination request, none of the three    *)
(* files is created or written and no browser is launched.                 *)
C19_RootMissing ==
    ~rootExists =>
        /\ pc \in {"Idle", "Failed"}
        /\ pc = "Failed" => failure = [step |-> "Idle", cause |-> "RootNotFound"]
        /\ started = <<>>
        /\ \A s \in StepSet : outcome[s] = "none"
        /\ events = <<>>
        /\ ~idFile.exists /\ ~configFile.exists /\ ~scriptFile.exists
        /\ ~launched

\* the run has ended at the test of the installation root
C19_Witness ==
    /\ ~rootExists
    /\ pc = "Failed"
    /\ procs # <<>>

----------------------------------------------------------------------------
\* the calls on files made in the step being taken
NewFileEvents ==
    { events'[i] : i \in { j \in DOMAIN events' : j > Len(events) } }

(* C20: every step changes and opens its own target only: the identifier   *)
(* step machineId, the config step product.json, the script step the       *)
(* workbench file; the other steps change none of the three files, and no  *)
(* other path is guarded, escalated or opened.                             *)
C20_OwnTargetOnly ==
    [][ /\ pc = "ResettingIdentifier" => UNCHANGED <<configFile, scriptFile>>
        /\ pc = "PatchingConfig" => UNCHANGED <<idFile, scriptFile>>
        /\ pc = "PatchingScript" => UNCHANGED <<idFile, configFile>>
        /\ pc \notin WriterSteps => UNCHANGED <<idFile, configFile, scriptFile>>
        /\ \A e \in NewFileEvents :
             e.op \in {"guard", "escalate", "escalate_error", "open_r", "open_w"}
               => pc \in WriterSteps /\ e.target = TargetOf(pc)
      ]_vars

\* the three steps have each rewritten their file
C20_Witness ==
    /\ \A s \in WriterSteps : outcome[s] = "success"
    /\ idFile # orig.id
    /\ configFile # orig.config
    /\ scriptFile # orig.script

====
